---- MODULE Spec2Model ----
(***************************************************************************)
(* A model of sieve.cc: a segmented Sieve of Eratosthenes over a wheel of  *)
(* the first six primes, emitting primes as 64-bit little-endian numbers.  *)
(***************************************************************************)
EXTENDS Integers, Sequences, FiniteSets, TLC

VARIABLES
  maximum,         \* main: the parsed upper bound
  kChunkLength,    \* the chunk-length tuning constant of this build
  pc,              \* main's position
  exit_status,     \* -1 while running, else the process's exit status
  i,               \* index into the base-prime list of the first loop
  initial_length,  \* main: initial_length
  initial_end,     \* main: initial_end
  primes,          \* main: Range primes
  pcur,            \* ForPrimes cursor over primes (flat bit position)
  chunk,           \* main: chunk loop counter
  chunk_count,     \* main: chunk_count
  range,           \* main: Range range of the current chunk
  rcur,            \* ForPrimes cursor over range
  stdout,          \* what was written to stdout: the char out[8] of each
                   \* fwrite(&out, sizeof(out), 1, stdout), in order
  prevout,         \* <<stdout>> of the run before a rerun with another
                   \* kChunkLength, <<>> in a first run
  args             \* history: the arguments of the calls observed so far
                   \* (of PrintLittleEndian in SpecPrint, of ForPrimes's f
                   \* in SpecRange)

vars == <<maximum, kChunkLength, pc, exit_status, i, initial_length,
          initial_end, primes, pcur, chunk, chunk_count, range, rcur,
          stdout, prevout, args>>

----------------------------------------------------------------------------
(* Indexer *)

kSize == 2 * 3 * 5 * 7 * 11 * 13
kBits == 1 * 2 * 4 * 6 * 10 * 12
kNextPrime == 17

\* The condition of the constructor's if: n is divisible by a wheel prime.
Excluded(n) ==
  (n % 2 = 0) \/ (n % 3 = 0) \/ (n % 5 = 0) \/ (n % 7 = 0) \/
  (n % 11 = 0) \/ (n % 13 = 0)

\* The iterations before n that took the else branch, counted in blocks of
\* BlockSize iterations (CounterAtBlock[b] is the count at n = b * BlockSize).
BlockSize == 2 * 3 * 5 * 7

CounterAtBlock ==
  [b \in 0..(kSize \div BlockSize) |->
     Cardinality({m \in 0..(b * BlockSize - 1) : ~Excluded(m)})]

\* The constructor's counter i when its loop reaches n: i starts at 0 and is
\* incremented once in every iteration that takes the else branch.
LoopCounter(n) ==
  CounterAtBlock[n \div BlockSize]
    + Cardinality({m \in ((n \div BlockSize) * BlockSize)..(n - 1) :
                     ~Excluded(m)})


\* IndexOfEntry with `indexOf[n] = ++i`.
IndexOfEntryPreIncrement(n) == IF Excluded(n) THEN -1 ELSE LoopCounter(n) + 1

\* indexOf[n] as the constructor's loop body leaves it.
IndexOfEntry(n) == IF Excluded(n) THEN -1 ELSE LoopCounter(n)

\* The values of n the else branch writes to atIndex[i], i = 0, 1, ..., in
\* the order of the loop.
AtIndexEntries ==
  SelectSeq([n \in 1..kSize |-> n - 1], LAMBDA n : ~Excluded(n))

\* indexOf[0], indexOf[1], ... as the loop leaves them, as one sequence (the
\* selection keeps every entry: it only makes the table a stored one).
IndexOfEntries ==
  SelectSeq([n \in 1..kSize |-> IndexOfEntry(n - 1)], LAMBDA e : TRUE)

\* constexpr Indexer kIndexer: indexOf[kSize] and atIndex[kBits]; an entry of
\* atIndex the loop does not write keeps the 0 of the initialiser atIndex().
kIndexer ==
  [indexOf |-> [n \in 0..(kSize - 1) |-> IndexOfEntries[n + 1]],
   atIndex |-> [x \in 0..(kBits - 1) |->
                  IF x < Len(AtIndexEntries) THEN AtIndexEntries[x + 1] ELSE 0]]

----------------------------------------------------------------------------
(* Range *)


\* MinusMod without the negation: x mod p.
PlusMod(x, p) == x % p

\* Computes -x mod p.
MinusMod(x, p) == p - 1 - ((x + p - 1) % p)

\* bitsets_[j][index], as a position in the concatenation of the bitsets.
Bit(j, index) == j * kBits + index

\* Range(offset, size); bitsets_ is the set of the positions that are set.
Range(offset, size) ==
  [offset_ |-> offset, max_ |-> size * kSize, size |-> size,
   bitsets_ |-> IF offset = 0 THEN {Bit(0, 0)} ELSE {}]


\* SieveOffsets starting at the first multiple of p in the Range instead of
\* at the offset given.
SieveOffsetsFromFirst(r, p, offset) ==
  IF offset % p < r.max_
    THEN {(offset % p) + t * p : t \in 0..((r.max_ - 1 - (offset % p)) \div p)}
    ELSE {}

\* The values of `offset` the loop of Sieve(p, offset) goes through.
SieveOffsets(r, p, offset) ==
  IF offset < r.max_
    THEN {offset + t * p : t \in 0..((r.max_ - 1 - offset) \div p)}
    ELSE {}


\* SetBits with flip(index) for set(index).
FlipBits(bits, bs) == (bits \ bs) \cup (bs \ bits)

\* bitset.set(index) for each index of bs: the bits become 1, the others stay.
SetBits(bits, bs) == bits \cup bs

\* void Sieve(const int64_t p, int64_t offset)
SieveFrom(r, p, offset) ==
  [r EXCEPT !.bitsets_ =
     SetBits(@, {Bit(o \div kSize, kIndexer.indexOf[o % kSize]) :
                   o \in {x \in SieveOffsets(r, p, offset) :
                            kIndexer.indexOf[x % kSize] >= 0}})]

\* void Sieve(const int64_t p)
Sieve(r, p) == SieveFrom(r, p, MinusMod(r.offset_, p))

\* The position ForPrimes stops at next: the first position >= c whose bit is
\* 0, or the end of the bitsets when there is none.
RECURSIVE NextZero(_, _)
NextZero(r, c) ==
  IF c >= r.size * kBits \/ c \notin r.bitsets_ THEN c ELSE NextZero(r, c + 1)


\* ForPrimesArg with the offset of the Range added.
ForPrimesArgAbsolute(r, c) ==
  r.offset_ + (c \div kBits) * kSize + kIndexer.atIndex[c % kBits]

\* The argument ForPrimes of r passes to f at position c (j = c / kBits,
\* index = c % kBits): `offset + kIndexer.atIndex[index]`, where offset is
\* the local j * kSize.
ForPrimesArg(r, c) == (c \div kBits) * kSize + kIndexer.atIndex[c % kBits]

\* The arguments a complete ForPrimes over r passes to f.
Survivors(r) ==
  {ForPrimesArg(r, c) : c \in {x \in 0..(r.size * kBits - 1) : x \notin r.bitsets_}}

----------------------------------------------------------------------------
(* 64-bit integers too wide for the 32-bit integers of the model: little-endian *)
(* sequences of Limbs digits in base LimbBase.                               *)

LimbBase == 2 ^ 14
Limbs == (64 \div 14) + 1

\* Carry propagation over n digits ds[1..n], each below 2^31.
RECURSIVE Carry(_, _, _, _)
Carry(ds, d, n, c) ==
  IF d > n THEN <<>>
  ELSE LET v == (IF d <= Len(ds) THEN ds[d] ELSE 0) + c
       IN  <<v % LimbBase>> \o Carry(ds, d + 1, n, v \div LimbBase)

\* A non-negative 32-bit integer of the model as a wide integer.
Wide(n) == Carry(<<n>>, 1, Limbs, 0)

WideMulSmall(a, m) == Carry([d \in 1..Len(a) |-> a[d] * m], 1, Len(a), 0)
WideAddSmall(a, s) == Carry([d \in 1..Len(a) |-> IF d = 1 THEN a[d] + s ELSE a[d]],
                            1, Len(a), 0)

\* The exact product, 2 * Limbs digits wide.
WideMul(a, b) ==
  LET Coef(k) ==
        LET I == {x \in 1..Len(a) : k + 1 - x \in 1..Len(b)}
            RECURSIVE Sum(_)
            Sum(S) == IF S = {} THEN 0
                      ELSE LET x == CHOOSE y \in S : TRUE
                           IN  a[x] * b[k + 1 - x] + Sum(S \ {x})
        IN  Sum(I)
  IN  Carry([k \in 1..(Len(a) + Len(b)) |-> Coef(k)], 1, Len(a) + Len(b), 0)

\* a < b, digits compared from the most significant; the shorter is padded.
RECURSIVE WideLessFrom(_, _, _)
WideLessFrom(a, b, d) ==
  IF d = 0 THEN FALSE
  ELSE LET x == IF d <= Len(a) THEN a[d] ELSE 0
           y == IF d <= Len(b) THEN b[d] ELSE 0
       IN  IF x # y THEN x < y ELSE WideLessFrom(a, b, d - 1)

WideLess(a, b) == WideLessFrom(a, b, IF Len(a) > Len(b) THEN Len(a) ELSE Len(b))
WideLeq(a, b) == ~WideLess(b, a)

\* std::numeric_limits<int64_t>::max() = 2^63 - 1
INT64_MAX == Carry(<<LimbBase - 1, LimbBase - 1, LimbBase - 1, LimbBase - 1,
                     (2 ^ 7) - 1>>, 1, Limbs, 0)

----------------------------------------------------------------------------
(* PrintLittleEndian *)

\* p >>= 8 for p >= 0
ShiftRight8(p) ==
  LET Digit(d) ==
        (p[d] \div 256)
          + (IF d < Limbs THEN (p[d + 1] % 256) * (LimbBase \div 256) ELSE 0)
  IN  <<Digit(1), Digit(2), Digit(3), Digit(4), Digit(5)>>


\* PrintLoop filling out[7 - i]: most significant byte first.
RECURSIVE PrintLoopBigEndian(_, _)
PrintLoopBigEndian(p, n) ==
  IF n >= 8 THEN <<>>
  ELSE PrintLoopBigEndian(ShiftRight8(p), n + 1) \o <<p[1] % 256>>

\* The loop filling char out[8], from iteration n on.
RECURSIVE PrintLoop(_, _)
PrintLoop(p, n) ==
  IF n >= 8 THEN <<>>
  ELSE <<p[1] % 256>> \o PrintLoop(ShiftRight8(p), n + 1)

\* void PrintLittleEndian(int64_t p), p >= 0: out is the stream so far, and
\* fwrite(&out, sizeof(out), 1, stdout) adds the array the loop has filled.
PrintLittleEndian(out, p) == Append(out, PrintLoop(p, 0))

----------------------------------------------------------------------------
(* main *)

\* Bounds of the model: the upper bounds given on the command line are
\* 0..SmallBound, the places around the end of the first segment, and the
\* end of the first chunk of the shortest chunk length and the place after
\* it; negative bounds are -1 .. -NegBound.
SmallBound == 40
NegBound == 2
MaxChunkLength == 2

\* An int64_t: its sign and its magnitude as a wide integer.
Int64(n) == [neg |-> n < 0, mag |-> Wide(IF n < 0 THEN -n ELSE n)]

\* A wide integer that fits 32 bits, as an integer of the model.
Narrow(w) == w[1] + LimbBase * w[2] + LimbBase * LimbBase * w[3]


\* Exceeds with the comparison off by one: p > m + 1.
ExceedsLate(p, m) == m.neg \/ WideLess(m.mag, Wide(p - 1))

\* Exceeds with >= for >.
ExceedsOrEquals(p, m) == m.neg \/ WideLeq(m.mag, Wide(p))

\* p > m for a p >= 0 that fits 32 bits and an int64_t m.
Exceeds(p, m) == m.neg \/ WideLess(m.mag, Wide(p))

Bounds ==
  {Int64(n) : n \in ((-NegBound)..SmallBound)
                    \cup {kSize - 1, kSize + kNextPrime - 1, kSize + kNextPrime,
                          2 * kSize, 2 * kSize + 1}}

BasePrimes == <<2, 3, 5, 7, 11, 13>>

NoRange == [offset_ |-> 0, max_ |-> 0, size |-> 0, bitsets_ |-> {}]

\* (L * kSize)^2 >= n, i.e. L >= sqrt(n) / kSize
Reaches(L, n) ==
  LET e == WideMulSmall(Wide(L), kSize) IN WideLeq(n, WideMul(e, e))

RECURSIVE LeastLength(_, _, _)
LeastLength(lo, hi, n) ==
  IF lo = hi THEN lo
  ELSE LET mid == (lo + hi) \div 2
       IN  IF Reaches(mid, n) THEN LeastLength(lo, mid, n)
           ELSE LeastLength(mid + 1, hi, n)

\* ceil(sqrt((long double) n) / kSize) for n >= 0, in exact arithmetic (the
\* 64-bit mantissa of the x87 long double holds every int64_t exactly).
InitialLength(n) == LeastLength(0, 2 ^ 17, n)

\* The conversion of ceil(NaN) to size_t is undefined: any length.
UndefinedLengths == {0, 1, 2 ^ 17}

kChunkSize == kSize * kChunkLength


\* ChunkCount rounding down: without `+ kChunkSize - 1`.
ChunkCountFloor ==
  LET t == Narrow(maximum.mag) - Narrow(initial_end)
  IN  IF t >= 0 THEN t \div (kSize * kChunkLength) ELSE 2 ^ 30

\* (maximum - initial_end + kChunkSize - 1) / kChunkSize in size_t.  A negative
\* numerator wraps to about 2^64: more chunks than a run can go through.
ChunkCount ==
  LET t == Narrow(maximum.mag) - Narrow(initial_end) + kChunkSize - 1
  IN  IF t >= 0 THEN t \div kChunkSize ELSE 2 ^ 30

Exit(status) ==
  /\ pc' = "exited"
  /\ exit_status' = status

Init ==
  /\ maximum \in Bounds
  /\ kChunkLength \in 1..MaxChunkLength
  /\ pc = "main"
  /\ exit_status = -1
  /\ i = 1
  /\ initial_length = 0
  /\ initial_end = Wide(0)
  /\ primes = NoRange
  /\ pcur = 0
  /\ chunk = 0
  /\ chunk_count = 0
  /\ range = NoRange
  /\ rcur = 0
  /\ stdout = <<>>
  /\ prevout = <<>>
  /\ args = <<>>

\* lines 123-127
Main ==
  /\ pc = "main"
  /\ IF maximum.neg
       THEN initial_length' \in UndefinedLengths
       ELSE initial_length' = InitialLength(maximum.mag)
  /\ pc' = "base"
  /\ UNCHANGED <<maximum, kChunkLength, exit_status, i, initial_end, primes,
                 pcur, chunk, chunk_count, range, rcur, stdout, prevout, args>>

\* lines 128-133, one iteration
BaseLoop ==
  /\ pc = "base"
  /\ IF Exceeds(BasePrimes[i], maximum)
       THEN /\ Exit(0)
            /\ UNCHANGED <<i, stdout>>
       ELSE /\ stdout' = PrintLittleEndian(stdout, Wide(BasePrimes[i]))
            /\ i' = i + 1
            /\ pc' = IF i = Len(BasePrimes) THEN "end" ELSE "base"
            /\ UNCHANGED exit_status
  /\ UNCHANGED <<maximum, kChunkLength, initial_length, initial_end, primes,
                 pcur, chunk, chunk_count, range, rcur, prevout, args>>

\* initial_end * initial_end, exactly
InitialEndSquared(e) == WideMul(e, e)

\* lines 135-136.  A product above INT64_MAX is a signed overflow: the assert
\* may pass, fail, or have been compiled out.
InitialEnd ==
  /\ pc = "end"
  /\ LET e == WideMulSmall(Wide(initial_length), kSize)
         sq == InitialEndSquared(e)
     IN  /\ initial_end' = e
         /\ \/ /\ \/ WideLess(INT64_MAX, sq)
                  \/ WideLeq(maximum.mag, sq)
               /\ pc' = "construct"
               /\ UNCHANGED exit_status
            \/ /\ \/ WideLess(INT64_MAX, sq)
                  \/ WideLess(sq, maximum.mag)
               /\ pc' = "aborted"
               /\ exit_status' = 134
  /\ UNCHANGED <<maximum, kChunkLength, i, initial_length, primes, pcur,
                 chunk, chunk_count, range, rcur, stdout, prevout, args>>

\* line 137
Construct ==
  /\ pc = "construct"
  /\ primes' = Range(0, initial_length)
  /\ pcur' = 0
  /\ pc' = "seed"
  /\ UNCHANGED <<maximum, kChunkLength, exit_status, i, initial_length,
                 initial_end, chunk, chunk_count, range, rcur, stdout, prevout, args>>

\* A ForPrimes call in progress: its Range, the position its loops are at,
\* what has been written, and whether a callback has called exit.
ScanOf(r, c) == [r |-> r, c |-> c, out |-> stdout, exited |-> FALSE]

ScanDone(s) == s.exited \/ s.c >= s.r.size * kBits

\* lines 141-147, the callback of the scan of primes, called with p.
SeedCallback(s, c, p) ==
  IF Exceeds(p, maximum)
    THEN [s EXCEPT !.exited = TRUE]
    ELSE [r |-> SieveFrom(s.r, p, kNextPrime * p), c |-> c + 1,
          out |-> PrintLittleEndian(s.out, Wide(p)), exited |-> FALSE]

\* lines 156-162, the callback of the scan of a chunk, called with p.
ChunkCallback(s, c, p) ==
  IF Exceeds(p + s.r.offset_, maximum)
    THEN [s EXCEPT !.exited = TRUE]
    ELSE [s EXCEPT !.c = c + 1,
                   !.out = PrintLittleEndian(s.out, Wide(p + s.r.offset_))]

\* ForPrimes from s up to and including its next call of f: the callback of
\* the scan of primes (seed) or that of the scan of a chunk.
ForPrimesStep(s, seed) ==
  LET c == NextZero(s.r, s.c)
  IN  IF c >= s.r.size * kBits THEN [s EXCEPT !.c = s.r.size * kBits]
      ELSE IF seed THEN SeedCallback(s, c, ForPrimesArg(s.r, c))
      ELSE ChunkCallback(s, c, ForPrimesArg(s.r, c))

\* lines 141-147: ForPrimes over primes reaches its next 0 bit and calls f.
SeedVisit ==
  /\ pc = "seed"
  /\ NextZero(primes, pcur) < primes.size * kBits
  /\ \E s \in {ForPrimesStep(ScanOf(primes, pcur), TRUE)} :
         /\ primes' = s.r
         /\ pcur' = s.c
         /\ stdout' = s.out
         /\ IF s.exited THEN Exit(0) ELSE UNCHANGED <<pc, exit_status>>
  /\ UNCHANGED <<maximum, kChunkLength, i, initial_length, initial_end,
                 chunk, chunk_count, range, rcur, prevout, args>>

\* lines 149-152: ForPrimes over primes is through; the chunk loop begins.
SeedDone ==
  /\ pc = "seed"
  /\ NextZero(primes, pcur) >= primes.size * kBits
  /\ pcur' = primes.size * kBits
  /\ chunk_count' = ChunkCount
  /\ chunk' = 0
  /\ pc' = "loop"
  /\ UNCHANGED <<maximum, kChunkLength, exit_status, i, initial_length,
                 initial_end, primes, range, rcur, stdout, prevout, args>>

\* primes.ForPrimes([&range](p) { range.Sieve(p); }): Sieve only sets bits, so
\* the outcome of the calls in sequence is the union of their outcomes.
SieveAll(r, ps) ==
  [r EXCEPT !.bitsets_ = UNION ({@} \cup {Sieve(r, p).bitsets_ : p \in ps})]

\* lines 152-155: a new chunk, sieved with every survivor of primes.
ChunkBegin ==
  /\ pc = "loop"
  /\ chunk < chunk_count
  /\ LET offset == Narrow(initial_end) + chunk * kChunkSize
     IN  range' = SieveAll(Range(offset, kChunkLength), Survivors(primes))
  /\ rcur' = 0
  /\ pc' = "scan"
  /\ UNCHANGED <<maximum, kChunkLength, exit_status, i, initial_length,
                 initial_end, primes, pcur, chunk, chunk_count, stdout, prevout, args>>

\* lines 156-162: ForPrimes over range reaches its next 0 bit and calls f.
ChunkVisit ==
  /\ pc = "scan"
  /\ NextZero(range, rcur) < range.size * kBits
  /\ \E s \in {ForPrimesStep(ScanOf(range, rcur), FALSE)} :
         /\ rcur' = s.c
         /\ stdout' = s.out
         /\ IF s.exited THEN Exit(0) ELSE UNCHANGED <<pc, exit_status>>
  /\ UNCHANGED <<maximum, kChunkLength, i, initial_length, initial_end,
                 primes, pcur, chunk, chunk_count, range, prevout, args>>

\* line 152: the scan of range is through; chunk++.
ChunkDone ==
  /\ pc = "scan"
  /\ NextZero(range, rcur) >= range.size * kBits
  /\ rcur' = range.size * kBits
  /\ chunk' = chunk + 1
  /\ pc' = "loop"
  /\ UNCHANGED <<maximum, kChunkLength, exit_status, i, initial_length,
                 initial_end, primes, pcur, chunk_count, range, stdout, prevout, args>>

\* line 164
Return ==
  /\ pc = "loop"
  /\ chunk >= chunk_count
  /\ pc' = "returned"
  /\ exit_status' = 0
  /\ UNCHANGED <<maximum, kChunkLength, i, initial_length, initial_end,
                 primes, pcur, chunk, chunk_count, range, rcur, stdout, prevout, args>>

Next ==
  \/ Main
  \/ BaseLoop
  \/ InitialEnd
  \/ Construct
  \/ SeedVisit
  \/ SeedDone
  \/ ChunkBegin
  \/ ChunkVisit
  \/ ChunkDone
  \/ Return

Spec == Init /\ [][Next]_vars

----------------------------------------------------------------------------
(* main with each call of ForPrimes as one step.                             *)

\* The loops of ForPrimes are evaluated in nested batches of BatchSize calls
\* of f, which keeps the depth of the evaluation low: ForPrimesLoop(s, seed,
\* 0, n) makes up to n calls, ForPrimesLoop(s, seed, k, n) up to n batches of
\* level k - 1.  It stops where the loops end or a callback exits.
BatchSize == 16

RECURSIVE ForPrimesLoop(_, _, _, _)
ForPrimesLoop(s, seed, level, n) ==
  IF n = 0 \/ ScanDone(s) THEN s
  ELSE LET t == IF level = 0 THEN ForPrimesStep(s, seed)
                ELSE ForPrimesLoop(s, seed, level - 1, BatchSize)
       IN  IF ScanDone(t) THEN t ELSE ForPrimesLoop(t, seed, level, n - 1)

\* void ForPrimes(f) on r, from its first position to its last or to the exit.
ForPrimesCall(r, seed) ==
  ForPrimesLoop(ScanOf(r, 0), seed, 2,
                ((r.size * kBits) \div (BatchSize * BatchSize)) + 1)

\* lines 141-152: the scan of primes, then the chunk loop begins.
SeedScan ==
  /\ pc = "seed"
  /\ \E s \in {ForPrimesCall(primes, TRUE)} :
         /\ primes' = s.r
         /\ pcur' = s.c
         /\ stdout' = s.out
         /\ IF s.exited
              THEN /\ Exit(0)
                   /\ UNCHANGED <<chunk, chunk_count>>
              ELSE /\ chunk_count' = ChunkCount
                   /\ chunk' = 0
                   /\ pc' = "loop"
                   /\ UNCHANGED exit_status
  /\ UNCHANGED <<maximum, kChunkLength, i, initial_length, initial_end,
                 range, rcur, prevout, args>>

\* lines 156-162 and 152: the scan of a chunk, then chunk++.
ChunkScan ==
  /\ pc = "scan"
  /\ \E s \in {ForPrimesCall(range, FALSE)} :
         /\ rcur' = s.c
         /\ stdout' = s.out
         /\ IF s.exited
              THEN /\ Exit(0)
                   /\ UNCHANGED chunk
              ELSE /\ chunk' = chunk + 1
                   /\ pc' = "loop"
                   /\ UNCHANGED exit_status
  /\ UNCHANGED <<maximum, kChunkLength, i, initial_length, initial_end,
                 primes, pcur, chunk_count, range, prevout, args>>

NextCalls ==
  \/ Main
  \/ BaseLoop
  \/ InitialEnd
  \/ Construct
  \/ SeedScan
  \/ ChunkBegin
  \/ ChunkScan
  \/ Return

SpecCalls == Init /\ [][NextCalls]_vars

----------------------------------------------------------------------------
(* The program run again on the same bound, built with the next chunk       *)
(* length; prevout keeps what the run before wrote.                          *)

Halted == pc \in {"exited", "returned", "aborted"}

InitRerun ==
  /\ Init
  /\ kChunkLength = 1

Rerun ==
  /\ Halted
  /\ kChunkLength < MaxChunkLength
  /\ kChunkLength' = kChunkLength + 1
  /\ prevout' = <<stdout>>
  /\ pc' = "main"
  /\ exit_status' = -1
  /\ i' = 1
  /\ initial_length' = 0
  /\ initial_end' = Wide(0)
  /\ primes' = NoRange
  /\ pcur' = 0
  /\ chunk' = 0
  /\ chunk_count' = 0
  /\ range' = NoRange
  /\ rcur' = 0
  /\ stdout' = <<>>
  /\ UNCHANGED <<maximum, args>>

NextRerun ==
  \/ NextCalls
  \/ Rerun

SpecRerun == InitRerun /\ [][NextRerun]_vars

----------------------------------------------------------------------------
(* A Range on its own: any sequence of Sieve calls, then one ForPrimes.      *)

MaxRangeOffset == 2
MaxRangeSize == 2
NumSievePrimes == 2

RangeOffsets == {c * kSize : c \in 0..MaxRangeOffset}

\* The primes the calls are made with: 17, 19, 23, ...
SievePrimes == {AtIndexEntries[x] : x \in 2..(NumSievePrimes + 1)}

\* The positions of the 0 bits of r, ascending: the order of ForPrimes's loops.
ZeroPositions(r) ==
  SelectSeq([c \in 1..(r.size * kBits) |-> c - 1], LAMBDA c : c \notin r.bitsets_)

\* The arguments of the calls of f a complete ForPrimes over r makes, in order.
ForPrimesArgs(r, zs) == [k \in 1..Len(zs) |-> ForPrimesArg(r, zs[k])]

ForPrimes(r) == ForPrimesArgs(r, ZeroPositions(r))

InitRange ==
  /\ pc = "range"
  /\ \E offset \in RangeOffsets, size \in 1..MaxRangeSize :
       range = Range(offset, size)
  /\ maximum = Int64(0)
  /\ kChunkLength = 1
  /\ exit_status = -1
  /\ i = 1
  /\ initial_length = 0
  /\ initial_end = Wide(0)
  /\ primes = NoRange
  /\ pcur = 0
  /\ chunk = 0
  /\ chunk_count = 0
  /\ rcur = 0
  /\ stdout = <<>>
  /\ prevout = <<>>
  /\ args = <<>>

RangeSieve ==
  /\ pc = "range"
  /\ \E p \in SievePrimes : range' = Sieve(range, p)
  /\ UNCHANGED <<maximum, kChunkLength, pc, exit_status, i, initial_length,
                 initial_end, primes, pcur, chunk, chunk_count, rcur, stdout,
                 prevout, args>>

RangeSieveFrom ==
  /\ pc = "range"
  /\ \E p \in SievePrimes : range' = SieveFrom(range, p, kNextPrime * p)
  /\ UNCHANGED <<maximum, kChunkLength, pc, exit_status, i, initial_length,
                 initial_end, primes, pcur, chunk, chunk_count, rcur, stdout,
                 prevout, args>>

\* range.ForPrimes(f) with an f that records its argument.
RangeForPrimes ==
  /\ pc = "range"
  /\ args' = ForPrimes(range)
  /\ rcur' = range.size * kBits
  /\ pc' = "scanned"
  /\ UNCHANGED <<maximum, kChunkLength, exit_status, i, initial_length,
                 initial_end, primes, pcur, chunk, chunk_count, range, stdout,
                 prevout>>

NextRange ==
  \/ RangeSieve
  \/ RangeSieveFrom
  \/ RangeForPrimes

SpecRange == InitRange /\ [][NextRange]_vars

----------------------------------------------------------------------------
(* PrintLittleEndian on its own, over the whole of 0 .. 2^63 - 1.            *)

MaxPrints == 2

\* The wide integer of the bytes b[1..8], least significant first.
RECURSIVE FromBytes(_, _)
FromBytes(b, j) ==
  IF j > Len(b) THEN Wide(0)
  ELSE WideAddSmall(WideMulSmall(FromBytes(b, j + 1), 256), b[j])

PrintValues ==
  {Wide(0), Wide(1), Wide(2), Wide(255), Wide(256), Wide(30029),
   Wide(65535), Wide(65536), Wide((2 ^ 30) + 1), INT64_MAX,
   FromBytes(<<1, 2, 3, 4, 5, 6, 7, 8>>, 1),
   FromBytes(<<0, 0, 0, 0, 128, 0, 0, 0>>, 1),
   FromBytes(<<255, 0, 255, 0, 255, 0, 255, 0>>, 1),
   FromBytes(<<0, 0, 0, 0, 0, 0, 0, 127>>, 1)}

InitPrint ==
  /\ pc = "print"
  /\ stdout = <<>>
  /\ args = <<>>
  /\ maximum = Int64(0)
  /\ kChunkLength = 1
  /\ exit_status = -1
  /\ i = 1
  /\ initial_length = 0
  /\ initial_end = Wide(0)
  /\ primes = NoRange
  /\ pcur = 0
  /\ chunk = 0
  /\ chunk_count = 0
  /\ range = NoRange
  /\ rcur = 0
  /\ prevout = <<>>

CallPrint ==
  /\ pc = "print"
  /\ Len(args) < MaxPrints
  /\ \E p \in PrintValues :
       /\ stdout' = PrintLittleEndian(stdout, p)
       /\ args' = Append(args, p)
  /\ UNCHANGED <<maximum, kChunkLength, pc, exit_status, i, initial_length,
                 initial_end, primes, pcur, chunk, chunk_count, range, rcur,
                 prevout>>

NextPrint == CallPrint

SpecPrint == InitPrint /\ [][NextPrint]_vars

----------------------------------------------------------------------------
(* main up to its assert, over the whole of 0 .. 2^63 - 1.                   *)

\* The low Limbs digits of a wide product.
Low(w) == SubSeq(w, 1, Limbs)

\* (L * kSize)^2
SquareOfLength(L) == Low(InitialEndSquared(WideMulSmall(Wide(L), kSize)))

RECURSIVE PowerOfTwo(_)
PowerOfTwo(e) == IF e = 0 THEN Wide(1) ELSE WideMulSmall(PowerOfTwo(e - 1), 2)

WideBoundLengths == {1, 2, 3, 33, 1000, 71512, 101131, 101132}

WideBounds ==
  {Int64(n) : n \in {13, 14, 17, 30029, 30030, 2147483647}}
    \cup {[neg |-> FALSE, mag |-> SquareOfLength(L)] : L \in WideBoundLengths}
    \cup {[neg |-> FALSE, mag |-> WideAddSmall(SquareOfLength(L), 1)] :
            L \in WideBoundLengths}
    \cup {[neg |-> FALSE, mag |-> PowerOfTwo(e)] : e \in {32, 40, 53, 62}}
    \cup {[neg |-> FALSE, mag |-> INT64_MAX]}

InitBound ==
  /\ maximum \in WideBounds
  /\ kChunkLength = 1
  /\ pc = "main"
  /\ exit_status = -1
  /\ i = 1
  /\ initial_length = 0
  /\ initial_end = Wide(0)
  /\ primes = NoRange
  /\ pcur = 0
  /\ chunk = 0
  /\ chunk_count = 0
  /\ range = NoRange
  /\ rcur = 0
  /\ stdout = <<>>
  /\ prevout = <<>>
  /\ args = <<>>

NextBound ==
  \/ Main
  \/ BaseLoop
  \/ InitialEnd

SpecBound == InitBound /\ [][NextBound]_vars

----------------------------------------------------------------------------
(* The properties of the program.                                          *)

\* The largest bound of Bounds, and a root of it.
MaxBoundValue == 2 * kSize + 1
RootLimit == CHOOSE r \in 1..MaxBoundValue : r * r >= MaxBoundValue

\* q is prime, by trial division (for q <= MaxBoundValue).
IsPrime(q) ==
  /\ q > 1
  /\ \A d \in 2..(IF q - 1 < RootLimit THEN q - 1 ELSE RootLimit) :
       d * d > q \/ q % d # 0

RefPrimes == {q \in 2..MaxBoundValue : IsPrime(q)}

\* The bound as an integer (Spec and SpecRerun, whose bounds are narrow).
BoundValue ==
  IF maximum.neg THEN 0 - Narrow(maximum.mag) ELSE Narrow(maximum.mag)

\* The bytes of a stream of writes, in order.
StreamLength(out) ==
  LET RECURSIVE Sum(_)
      Sum(k) == IF k = 0 THEN 0 ELSE Len(out[k]) + Sum(k - 1)
  IN  Sum(Len(out))
EightByteWrites(out) == \A k \in 1..Len(out) : Len(out[k]) = 8
StreamByte(out, n) == out[((n - 1) \div 8) + 1][((n - 1) % 8) + 1]

\* stdout read as 8-byte little-endian integers below 2^31.
EmittedCount == Len(stdout)
EmittedByte(k, j) == stdout[k][j]
EmittedValue(k) ==
  EmittedByte(k, 1)
    + 256 * (EmittedByte(k, 2)
               + 256 * (EmittedByte(k, 3) + 256 * EmittedByte(k, 4)))
EmittedNarrow(k) ==
  /\ EmittedByte(k, 4) < 128
  /\ \A j \in 5..8 : EmittedByte(k, j) = 0

\* The integer a position of a Range at offset 0 stands for.
PositionValue(b) == (b \div kBits) * kSize + kIndexer.atIndex[b % kBits]

\* C1: when the run is over, what it has written is exactly the primes <= the
\* bound, each once, in strictly increasing order, and nothing else (nothing
\* at all for a bound below 2); the run does not end in a failed assert.
C1_EmitsExactlyThePrimes ==
  /\ pc # "aborted"
  /\ pc \in {"exited", "returned"} =>
       /\ EightByteWrites(stdout)
       /\ \A k \in 1..EmittedCount :
            /\ EmittedNarrow(k)
            /\ EmittedValue(k) \in RefPrimes
            /\ EmittedValue(k) <= BoundValue
            /\ k < EmittedCount => EmittedValue(k) < EmittedValue(k + 1)
       /\ EmittedCount = Cardinality({q \in RefPrimes : q <= BoundValue})

\* A run that went through a whole chunk and returned from main.
C1_Witness ==
  /\ pc = "returned"
  /\ chunk = 1
  /\ EmittedCount > kBits \div 2

\* The value the current loop looks at next, when there is one.
ScanPending ==
  \/ pc = "base"
  \/ pc = "seed" /\ NextZero(primes, pcur) < primes.size * kBits
  \/ pc = "scan" /\ NextZero(range, rcur) < range.size * kBits

ScannedValue ==
  CASE pc = "base" -> BasePrimes[i]
    [] pc = "seed" -> PositionValue(NextZero(primes, pcur))
    [] pc = "scan" -> range.offset_ + PositionValue(NextZero(range, rcur))

ScannedAboveBound ==
  /\ ScanPending
  /\ maximum.neg \/ WideLess(maximum.mag, Wide(ScannedValue))

\* C2: the step that scans a value above the bound ends the process with
\* status 0 and writes nothing, marks nothing and makes no segment; and
\* nothing happens after the process has exited.
C2_HaltsAtOnce ==
  [][/\ ScannedAboveBound =>
          /\ pc' = "exited"
          /\ exit_status' = 0
          /\ UNCHANGED <<stdout, primes, pcur, range, rcur, chunk>>
     /\ pc = "exited" =>
          UNCHANGED <<pc, exit_status, stdout, primes, range, chunk>>]_vars

\* An exit from the scan of primes, after callbacks that wrote and marked.
C2_Witness ==
  /\ pc = "exited"
  /\ exit_status = 0
  /\ pcur > 0
  /\ EmittedCount > Len(BasePrimes)
  /\ Cardinality(primes.bitsets_) > 1

\* C3: a run with another chunk length writes the same as the run before it
\* on the same bound; and chunk_count is ceil((bound - initial_end) /
\* kChunkSize), so that the chunks reach the bound.
C3_ChunkingInvariance ==
  /\ (Halted /\ Len(prevout) = 1) => stdout = prevout[1]
  /\ pc \in {"loop", "scan", "returned"} =>
       LET d == BoundValue - Narrow(initial_end)
       IN  chunk_count = IF d <= 0 THEN 0 ELSE ((d - 1) \div kChunkSize) + 1

\* The second run, with chunks twice as long, on a bound that ends the first
\* chunk of the first run.
C3_Witness ==
  /\ Halted
  /\ Len(prevout) = 1
  /\ kChunkLength = 2
  /\ range.size = 2
  /\ BoundValue = 2 * kSize

\* Byte n (0 = least significant) of the wide integer p: floor(p / 256^n) mod 256.
ByteOf(p, n) ==
  LET d == ((8 * n) \div 14) + 1
      s == (8 * n) % 14
  IN  ((p[d] \div (2 ^ s))
         + (IF d < Limbs THEN p[d + 1] * (2 ^ (14 - s)) ELSE 0)) % 256

\* The stream read as 8-byte little-endian integers.
DecodeGroup(out, k) ==
  FromBytes([j \in 1..8 |-> StreamByte(out, 8 * (k - 1) + j)], 1)
Decode(out) == [k \in 1..(StreamLength(out) \div 8) |-> DecodeGroup(out, k)]

RECURSIVE EncodeFrom(_, _)
EncodeFrom(vs, k) ==
  IF k = 0 THEN <<>> ELSE PrintLittleEndian(EncodeFrom(vs, k - 1), vs[k])

\* C4: each call appends exactly the 8 bytes floor(p / 256^n) mod 256, n = 0..7;
\* the stream decodes to the values printed, re-encodes to itself, and is 8
\* bytes per value.
C4_LittleEndianEncoding ==
  /\ EightByteWrites(stdout)
  /\ StreamLength(stdout) = 8 * Len(args)
  /\ \A k \in 1..Len(args) : \A n \in 0..7 :
       StreamByte(stdout, 8 * (k - 1) + n + 1) = ByteOf(args[k], n)
  /\ \A k \in 1..Len(args) : DecodeGroup(stdout, k) = args[k]
  /\ EncodeFrom(Decode(stdout), StreamLength(stdout) \div 8) = stdout

\* Two values printed, the second with all eight bytes different.
C4_Witness ==
  /\ Len(args) >= 2
  /\ args[1] = INT64_MAX
  /\ args[2] = FromBytes(<<1, 2, 3, 4, 5, 6, 7, 8>>, 1)

WheelPrimes == {2, 3, 5, 7, 11, 13}
Tracked(n) == \A q \in WheelPrimes : n % q # 0

\* The tables as the constructor leaves them: exactly kBits residues, those
\* coprime to the wheel primes, have an index, the others have -1; indexOf is
\* a bijection from them onto 0..kBits-1 with inverse atIndex; atIndex is
\* strictly ascending and starts with 1.
IndexerTablesHold ==
  /\ Cardinality({n \in 0..(kSize - 1) : kIndexer.indexOf[n] >= 0}) = kBits
  /\ \A n \in 0..(kSize - 1) :
       IF Tracked(n) THEN kIndexer.indexOf[n] \in 0..(kBits - 1)
       ELSE kIndexer.indexOf[n] = -1
  /\ {kIndexer.indexOf[n] : n \in {m \in 0..(kSize - 1) : Tracked(m)}}
       = 0..(kBits - 1)
  /\ \A n \in 0..(kSize - 1) :
       Tracked(n) => kIndexer.atIndex[kIndexer.indexOf[n]] = n
  /\ \A x \in 0..(kBits - 1) : kIndexer.indexOf[kIndexer.atIndex[x]] = x
  /\ \A x \in 0..(kBits - 2) : kIndexer.atIndex[x] < kIndexer.atIndex[x + 1]
  /\ kIndexer.atIndex[0] = 1

\* C5: in every state of a Range (the tables are built before any Range is),
\* exactly kBits residues, those coprime to the wheel primes, have an index,
\* the others have -1; indexOf is a bijection from them onto 0..kBits-1 with
\* inverse atIndex; atIndex is strictly ascending and starts with 1.
C5_IndexerTables ==
  pc \in {"range", "scanned"} => IndexerTablesHold

\* A Range whose bits were set and read through both tables.
C5_Witness ==
  /\ pc = "scanned"
  /\ range.bitsets_ # {}
  /\ Len(args) > 0

\* C6: on every Range and for every prime, a second Sieve(p), and a second
\* Sieve(p, 17 p), changes nothing, and a Sieve clears no bit.
C6_SieveIdempotent ==
  \A p \in SievePrimes :
    LET once == Sieve(range, p)
        onceFrom == SieveFrom(range, p, kNextPrime * p)
    IN  /\ Sieve(once, p) = once
        /\ SieveFrom(onceFrom, p, kNextPrime * p) = onceFrom
        /\ range.bitsets_ \subseteq once.bitsets_
        /\ range.bitsets_ \subseteq onceFrom.bitsets_

\* A Range away from 0 that a Sieve(p) has marked, about to be sieved again.
C6_Witness ==
  /\ pc = "range"
  /\ range.offset_ # 0
  /\ \E p \in SievePrimes :
       /\ Sieve(Range(range.offset_, range.size), p).bitsets_ # {}
       /\ Sieve(range, p) = range

\* initial_length is the least L with (L * kSize)^2 >= maximum, which is the
\* least L with L * kSize >= ceil(sqrt(maximum)).
LeastInitialLength ==
  /\ Reaches(initial_length, maximum.mag)
  /\ initial_length > 0 => ~Reaches(initial_length - 1, maximum.mag)

\* C7: for every bound from 13 up to 2^63 - 1, initial_length is the least
\* length reaching ceil(sqrt(bound)), the product initial_end * initial_end
\* does not exceed 2^63 - 1, and the assert holds.
C7_AssertWithoutOverflow ==
  pc \in {"construct", "aborted"} =>
    /\ LeastInitialLength
    /\ WideLeq(InitialEndSquared(initial_end), INT64_MAX)
    /\ WideLeq(maximum.mag, InitialEndSquared(initial_end))
    /\ pc = "construct"

\* C8: once constructed, the bits of primes change only in the callback of
\* its first scan, for the survivor p under the cursor; bits are only set,
\* each at a position after the cursor that stands for a multiple k p of p
\* with k >= 17; after that scan primes is only read.
C8_ForwardOnly ==
  [][(primes.size > 0 /\ primes'.bitsets_ # primes.bitsets_) =>
       /\ pc = "seed"
       /\ primes.bitsets_ \subseteq primes'.bitsets_
       /\ \A b \in primes'.bitsets_ \ primes.bitsets_ :
            /\ b > NextZero(primes, pcur)
            /\ PositionValue(b) > PositionValue(NextZero(primes, pcur))
            /\ PositionValue(b) % PositionValue(NextZero(primes, pcur)) = 0
            /\ PositionValue(b)
                 >= kNextPrime * PositionValue(NextZero(primes, pcur))]_vars

\* The first scan under way: callbacks have set bits, and the cursor has
\* passed a bit one of them set (289 = 17 * 17, the first composite tracked).
C8_Witness ==
  /\ pc = "seed"
  /\ Cardinality(primes.bitsets_) > 1
  /\ \E b \in primes.bitsets_ : 0 < b /\ b < pcur

\* C9: when the scan of a chunk begins, every Sieve(p), p a survivor of
\* primes, has been applied to it, and for every tracked value v <= bound of
\* the chunk the bit is set iff v is composite; the scan marks nothing.
C9_ChunkFullySieved ==
  /\ [](pc = "scan" /\ rcur = 0 =>
          /\ \A p \in Survivors(primes) :
               Sieve(Range(range.offset_, range.size), p).bitsets_
                 \subseteq range.bitsets_
          /\ \A c \in 0..(range.size * kBits - 1) :
               (range.offset_ + PositionValue(c) <= BoundValue) =>
                 (c \in range.bitsets_
                    <=> range.offset_ + PositionValue(c) \notin RefPrimes))
  /\ [][pc = "scan" => range'.bitsets_ = range.bitsets_]_vars

\* A sieved chunk whose scan is about to begin.
C9_Witness ==
  /\ pc = "scan"
  /\ rcur = 0
  /\ range.offset_ = kSize
  /\ range.bitsets_ # {}

\* base + j * kSize + atIndex[index] for the positions zs, in order.
ValuesAt(zs, base) ==
  [k \in 1..Len(zs) |->
     base + (zs[k] \div kBits) * kSize + kIndexer.atIndex[zs[k] % kBits]]

\* C10 as stated: ForPrimes calls f, for each 0 bit in order, with the
\* absolute integer offset_ + j * kSize + atIndex[index].
C10_PassesAbsoluteValues ==
  pc = "scanned" => args = ValuesAt(ZeroPositions(range), range.offset_)

\* C10 as amended: ForPrimes calls f, for each 0 bit in order, with
\* j * kSize + atIndex[index], the integer relative to the start of the Range.
C10_PassesRelativeValues ==
  pc = "scanned" => args = ValuesAt(ZeroPositions(range), 0)

\* A scan of a Range away from 0 that went into its second bitset.
C10_Witness ==
  /\ pc = "scanned"
  /\ range.offset_ # 0
  /\ range.size > 1
  /\ Len(args) > kBits
  /\ range.bitsets_ # {}
====
